---- MODULE Spec2Model ----
(***************************************************************************)
(* Model of packages/server/lib/util/fs.ts: the safe path resolver         *)
(* ensureSafePath and the process-wide filename budget maxSafeBytes.       *)
(*                                                                         *)
(* A string is a sequence of characters; a character is a TLA+ string      *)
(* naming it ("a", "U+20AC", ...).  A path is a sequence of segments, the  *)
(* last one being its basename.  A file is keyed by [dir, name].           *)
(***************************************************************************)
EXTENDS Integers, Sequences, FiniteSets, TLC

\* ------------------------------------------------------------------------
\* Bounds of the model
\* ------------------------------------------------------------------------

\* number of resolve calls made by the process
MaxCalls == 3

\* number of callers (asynchronous tasks) that ask for paths
MaxCallers == 2

\* number of create attempts the filesystem fails for a reason other than
\* the length of the name
MaxOtherErrors == 1

\* number of artifacts an earlier run left at the canonical name and its
\* " (1)", " (2)", ... variants
MaxPrior == 2

\* largest testAttemptIndex of a screenshot
MaxAttemptIndex == 2

\* ------------------------------------------------------------------------
\* Program constants
\* ------------------------------------------------------------------------

\* fs.ts:17  Number(process.env.CYPRESS_MAX_SAFE_FILENAME_BYTES) || 254
DefaultMaxSafeBytes == 254

\* fs.ts:18
MIN_PREFIX_BYTES == 64

\* fs.ts:17  a value given in CYPRESS_MAX_SAFE_FILENAME_BYTES: the floor plus
\* the eight characters of the suffix " (1).png"
ConfiguredMaxSafeBytes == 72

\* ------------------------------------------------------------------------
\* Strings: characters, UTF-16 length, UTF-8 bytes
\* ------------------------------------------------------------------------

\* The replacement character a UTF-8 decoder emits for an ill-formed sequence.
ReplacementChar == "U+FFFD"

\* Number of bytes of the UTF-8 encoding of a character (Buffer.from).
Utf8Length(c) ==
  CASE c = "U+00E9"  -> 2
    [] c = "U+20AC"  -> 3
    [] c = "U+FFFD"  -> 3
    [] c = "U+1F600" -> 4
    [] OTHER         -> 1

\* Number of UTF-16 code units of a character (String.prototype.length).
Utf16Length(c) == IF c = "U+1F600" THEN 2 ELSE 1

RECURSIVE StringLength(_)
\* s.length: the number of UTF-16 code units of s (summed by halves, which
\* keeps the evaluation shallow for names of a few hundred characters).
StringLength(s) ==
  IF s = <<>> THEN 0
  ELSE IF Len(s) = 1 THEN Utf16Length(s[1])
  ELSE LET h == Len(s) \div 2
       IN  StringLength(SubSeq(s, 1, h)) + StringLength(SubSeq(s, h + 1, Len(s)))

RECURSIVE BufferFrom(_)
\* Buffer.from(s): the UTF-8 bytes of s; byte i of character c is <<c, i>>.
BufferFrom(s) ==
  IF s = <<>> THEN <<>>
  ELSE IF Len(s) = 1 THEN [i \in 1..Utf8Length(s[1]) |-> <<s[1], i>>]
  ELSE LET h == Len(s) \div 2
       IN  BufferFrom(SubSeq(s, 1, h)) \o BufferFrom(SubSeq(s, h + 1, Len(s)))

RECURSIVE ByteLength(_)
\* Buffer.from(s).byteLength
ByteLength(s) ==
  IF s = <<>> THEN 0
  ELSE IF Len(s) = 1 THEN Utf8Length(s[1])
  ELSE LET h == Len(s) \div 2
       IN  ByteLength(SubSeq(s, 1, h)) + ByteLength(SubSeq(s, h + 1, Len(s)))

\* buf.slice(0, end): end < 0 counts from the end of the buffer.
BufferSlice(buf, end) ==
  LET e == IF end < 0
           THEN (IF Len(buf) + end < 0 THEN 0 ELSE Len(buf) + end)
           ELSE (IF end > Len(buf) THEN Len(buf) ELSE end)
  IN  SubSeq(buf, 1, e)

\* The first byte of a character's encoding.
IsLeadByte(byte) == byte[2] = 1

\* A whole character's encoding stands at the head of buf.
CompleteAtHead(buf) ==
  LET c == buf[1][1]
      n == Utf8Length(c)
  IN  /\ IsLeadByte(buf[1])
      /\ Len(buf) >= n
      /\ \A i \in 1..n : buf[i] = <<c, i>>

RECURSIVE SkipContinuation(_)
\* Drops the continuation bytes at the head of buf (they belong to the
\* ill-formed sequence that was just replaced).
SkipContinuation(buf) ==
  IF buf = <<>> \/ IsLeadByte(buf[1]) THEN buf ELSE SkipContinuation(Tail(buf))

RECURSIVE DecodeUnits(_)
\* UTF-8 decoding, unit by unit: a whole character decodes to itself, an
\* ill-formed sequence (a character cut short by slice) to one U+FFFD.
DecodeUnits(buf) ==
  IF buf = <<>> THEN <<>>
  ELSE IF CompleteAtHead(buf)
       THEN <<buf[1][1]>> \o
            DecodeUnits(SubSeq(buf, Utf8Length(buf[1][1]) + 1, Len(buf)))
       ELSE <<ReplacementChar>> \o DecodeUnits(SkipContinuation(Tail(buf)))

RECURSIVE BufferToString(_)
\* buf.toString(): the decoding of buf.  A long buffer is decoded in two
\* parts, split in front of a lead byte, where no unit is cut.
BufferToString(buf) ==
  LET h == Len(buf) \div 2
      leads == {i \in (h + 1)..Len(buf) : IsLeadByte(buf[i])}
  IN  IF Len(buf) <= 8 \/ leads = {}
      THEN DecodeUnits(buf)
      ELSE LET cut == CHOOSE i \in leads : \A j \in leads : i <= j
           IN  BufferToString(SubSeq(buf, 1, cut - 1)) \o
               BufferToString(SubSeq(buf, cut, Len(buf)))

RECURSIVE NumberToString(_)
\* `${num}` for a non-negative integer: its decimal digits.
NumberToString(n) ==
  LET digit == <<"0", "1", "2", "3", "4", "5", "6", "7", "8", "9">>
  IN  IF n < 10 THEN <<digit[n + 1]>>
      ELSE NumberToString(n \div 10) \o <<digit[(n % 10) + 1]>>

Pad(n) == [i \in 1..n |-> "a"]

\* ------------------------------------------------------------------------
\* Paths
\* ------------------------------------------------------------------------

\* path.basename(p): the final segment of p.
Basename(p) == p[Len(p)]

\* path.dirname(p): p without its final segment.
Dirname(p) == SubSeq(p, 1, Len(p) - 1)

\* path.join(dir, name): an empty name adds no segment.
PathJoin(dir, name) == IF name = <<>> THEN dir ELSE Append(dir, name)

\* [withoutExt, suffix].join(''): the suffix is glued to the final segment.
FullPath(withoutExt, suffix) ==
  [dir |-> Dirname(withoutExt), name |-> Basename(withoutExt) \o suffix]

RECURSIVE DirBytes(_)
\* Bytes the directory part takes in the path string, separators included.
DirBytes(dir) ==
  IF dir = <<>> THEN 0 ELSE ByteLength(Head(dir)) + 1 + DirBytes(Tail(dir))

PathBytes(file) == DirBytes(file.dir) + ByteLength(file.name)

\* ------------------------------------------------------------------------
\* ensureSafePath: the synchronous part of one invocation
\* ------------------------------------------------------------------------

\* The " (num)" marker of the suffix.
DuplicateMarker(num, overwrite) ==
  IF num # 0 /\ ~overwrite
  THEN <<" ", "(">> \o NumberToString(num) \o <<")">>
  ELSE <<>>

\* fs.ts:64
Suffix(num, overwrite, extension) ==
  DuplicateMarker(num, overwrite) \o <<".">> \o extension

\* fs.ts:66
MaxSafePrefixBytes(budget, suffix) == budget - StringLength(suffix)

\* fs.ts:70
Truncated(basename, maxSafePrefixBytes) ==
  BufferToString(BufferSlice(BufferFrom(basename), maxSafePrefixBytes))

\* fs.ts:67-73
TruncateWithoutExt(withoutExt, maxSafePrefixBytes) ==
  IF ByteLength(Basename(withoutExt)) > maxSafePrefixBytes
  THEN PathJoin(Dirname(withoutExt),
                Truncated(Basename(withoutExt), maxSafePrefixBytes))
  ELSE withoutExt

\* fs.ts:63-75: what one invocation computes before it asks the filesystem.
EnsureSafePath(withoutExt, extension, overwrite, num, budget) ==
  LET suffix == Suffix(num, overwrite, extension)
      maxSafePrefixBytes == MaxSafePrefixBytes(budget, suffix)
      w == TruncateWithoutExt(withoutExt, maxSafePrefixBytes)
  IN  [suffix |-> suffix,
       maxSafePrefixBytes |-> maxSafePrefixBytes,
       withoutExt |-> w,
       fullPath |-> FullPath(w, suffix)]

\* Mutant of RetryNextNum: an existing file is never a reason to retry.
RetryNextNumNever(found, overwrite) == FALSE

\* Mutant of RetryNextNum: the overwrite flag is ignored.
RetryNextNumAlways(found, overwrite) == found

\* fs.ts:79: the existence check sends the call to the next duplicate index.
RetryNextNum(found, overwrite) == found /\ ~overwrite

\* Mutant of NextNum: an index is skipped.
NextNumSkips(num) == num + 2

\* fs.ts:80
NextNum(num) == num + 1

\* Mutant of Recoverable: no floor.
RecoverableNoFloor(code, maxSafePrefixBytes) == code = "ENAMETOOLONG"

\* Mutant of Recoverable: the floor is one byte lower.
RecoverableBelowFloor(code, maxSafePrefixBytes) ==
  code = "ENAMETOOLONG" /\ maxSafePrefixBytes >= MIN_PREFIX_BYTES - 1

\* Mutant of Recoverable: the error code is not looked at.
RecoverableAnyCode(code, maxSafePrefixBytes) ==
  maxSafePrefixBytes >= MIN_PREFIX_BYTES

\* fs.ts:87: a create failure the call recovers from.
Recoverable(code, maxSafePrefixBytes) ==
  code = "ENAMETOOLONG" /\ maxSafePrefixBytes >= MIN_PREFIX_BYTES

\* Mutant of Decremented: the budget grows.
DecrementedUp(budget) == budget + 1

\* Mutant of Decremented: the budget shrinks by two.
DecrementedTwice(budget) == budget - 2

\* fs.ts:88
Decremented(budget) == budget - 1

\* ------------------------------------------------------------------------
\* The environment: configuration, filesystem, requests
\* ------------------------------------------------------------------------

Png == <<"p", "n", "g">>

ShallowDir == << <<"s">> >>

DeepDir == << <<"d", "e", "e", "p", "e", "r">> >>

\* A name that needs no truncation.
ShortName == <<"v">>

\* A name one byte longer than the whole budget b.
LongName(b) == Pad(b + 1)

\* A name whose three-byte character straddles the cut made at b - 4 bytes:
\* the cut keeps k of its bytes.
EuroName(b, k) == Pad(b - 4 - k) \o <<"U+20AC">> \o Pad(4)

\* The environments a process is started in.  budget: the value maxSafeBytes
\* starts with (CYPRESS_MAX_SAFE_FILENAME_BYTES, or the default); nameMax: the
\* longest file name, in bytes, the filesystem accepts; pathMax: the longest
\* path, in bytes, it accepts; requests: the paths-without-extension the
\* callers ask for.
Environment ==
  [ default |->
      [budget |-> DefaultMaxSafeBytes, nameMax |-> 255, pathMax |-> 4096,
       requests |-> { ShallowDir \o <<ShortName>>,
                      ShallowDir \o <<EuroName(DefaultMaxSafeBytes, 1)>> }],
    roomy |->
      [budget |-> ConfiguredMaxSafeBytes, nameMax |-> 255, pathMax |-> 4096,
       requests |-> { ShallowDir \o <<ShortName>>,
                      ShallowDir \o <<LongName(ConfiguredMaxSafeBytes)>>,
                      ShallowDir \o <<EuroName(ConfiguredMaxSafeBytes, 2)>> }],
    shortNames |->
      [budget |-> ConfiguredMaxSafeBytes, nameMax |-> 68, pathMax |-> 4096,
       requests |-> { ShallowDir \o <<LongName(ConfiguredMaxSafeBytes)>>,
                      ShallowDir \o <<EuroName(ConfiguredMaxSafeBytes, 2)>> }],
    shortPaths |->
      [budget |-> ConfiguredMaxSafeBytes, nameMax |-> 255, pathMax |-> 74,
       requests |-> { ShallowDir \o <<LongName(ConfiguredMaxSafeBytes)>>,
                      DeepDir \o <<LongName(ConfiguredMaxSafeBytes)>> }],
    tinyNames |->
      [budget |-> ConfiguredMaxSafeBytes, nameMax |-> 60, pathMax |-> 4096,
       requests |-> { ShallowDir \o <<LongName(ConfiguredMaxSafeBytes)>> }] ]

\* fs-extra: ENAMETOOLONG is the answer to a name or a path over the limit.
NameTooLong(e, file) ==
  \/ ByteLength(file.name) > Environment[e].nameMax
  \/ PathBytes(file) > Environment[e].pathMax

\* fs.pathExists(fullPath)
PathExists(fileMap, file) == file \in DOMAIN fileMap

\* fs.outputFileAsync(fullPath, ''): the file exists and is empty.
OutputFile(fileMap, file) ==
  [f \in DOMAIN fileMap \cup {file} |-> IF f = file THEN "empty" ELSE fileMap[f]]

RECURSIVE PriorRun(_, _, _, _, _)
\* The files runs k+1 .. n of an earlier process left for one request, each
\* run made with overwrite = false under budget b.
PriorRun(withoutExt, extension, k, n, b) ==
  IF k >= n THEN {}
  ELSE LET r == EnsureSafePath(withoutExt, extension, FALSE, k, b)
       IN  {r.fullPath} \cup PriorRun(r.withoutExt, extension, k + 1, n, b)

\* ------------------------------------------------------------------------
\* State
\* ------------------------------------------------------------------------

VARIABLES
  maxSafeBytes,  \* fs.ts:17, the process-wide budget
  files,         \* the filesystem: file -> content
  env,           \* the environment the process runs in
  calls,         \* per caller: where its resolve call is and what it holds
  ncalls,        \* resolve calls made so far
  nerrors,       \* create attempts failed for another reason than length
  returned,      \* what the calls that resolved were asked and answered
  job            \* the screenshot whose path getPath builds

vars == <<maxSafeBytes, files, env, calls, ncalls, nerrors, returned, job>>

Callers == 1..MaxCallers

NoFile == [dir |-> <<>>, name |-> <<>>]

NoOp == [op |-> "none", file |-> NoFile, ok |-> TRUE]

\* No screenshot is being named.
NoJob == [pc |-> "none"]

\* A caller that has made no call yet.  requested .. tooLong record the
\* history of the call: what was asked; the files, the budget and the paths
\* already returned when it began; the duplicate indexes whose candidate was
\* found absent (clearNums) or present (foundNums); its last filesystem
\* operation; the number of ENAMETOOLONG failures it recovered from; the
\* candidate paths it has checked so far (probed).
IdleCall ==
  [pc |-> "idle", withoutExt |-> <<>>, extension |-> <<>>, overwrite |-> FALSE,
   num |-> 0, suffix |-> <<>>, maxSafePrefixBytes |-> 0, fullPath |-> NoFile,
   result |-> NoFile, error |-> "none",
   requested |-> <<>>, startFiles |-> <<>>, startBudget |-> 0,
   startReturned |-> {}, clearNums |-> {}, foundNums |-> {},
   lastOp |-> NoOp, tooLong |-> 0, probed |-> {}]

\* One invocation of ensureSafePath by call c with duplicate index num: the
\* synchronous part runs and the existence check is pending.
Invoke(c, withoutExt, num, budget) ==
  LET r == EnsureSafePath(withoutExt, c.extension, c.overwrite, num, budget)
  IN  [c EXCEPT !.pc = "pathExists", !.withoutExt = r.withoutExt, !.num = num,
                !.suffix = r.suffix,
                !.maxSafePrefixBytes = r.maxSafePrefixBytes,
                !.fullPath = r.fullPath,
                !.probed = @ \cup {r.fullPath}]

Active(p) == calls[p].pc \in {"pathExists", "outputFile"}

\* Calls are made one after the other, by one caller.
Sequential(p) == p = 1 /\ \A q \in Callers : ~Active(q)

Init ==
  \E e \in DOMAIN Environment, n \in 0..MaxPrior :
  \E req \in Environment[e].requests,
     b \in {Environment[e].budget}
             \cup {x \in {Environment[e].nameMax} : x < Environment[e].budget} :
    LET prior == PriorRun(req, Png, 0, n, b)
    IN  /\ \A f \in prior : ~NameTooLong(e, f)
        /\ env = e
        /\ maxSafeBytes = Environment[e].budget
        /\ files = [f \in prior |-> "artifact"]
        /\ calls = [p \in Callers |-> IdleCall]
        /\ ncalls = 0
        /\ nerrors = 0
        /\ returned = {}
        /\ job = NoJob

\* ------------------------------------------------------------------------
\* Actions
\* ------------------------------------------------------------------------

\* getPath, fs.ts:133: ensureSafePath(withoutExt, ext, overwrite), num = 0.
Start(p, withoutExt, extension, overwrite) ==
  /\ ~Active(p)
  /\ ncalls < MaxCalls
  /\ ncalls' = ncalls + 1
  /\ calls' = [calls EXCEPT ![p] =
       Invoke([IdleCall EXCEPT !.extension = extension,
                               !.overwrite = overwrite,
                               !.requested = withoutExt,
                               !.startFiles = files,
                               !.startBudget = maxSafeBytes,
                               !.startReturned = {r.result : r \in returned}],
              withoutExt, 0, maxSafeBytes)]
  /\ UNCHANGED <<maxSafeBytes, files, env, job, nerrors, returned>>

\* fs.ts:78-81: the path exists and overwrite is off: next duplicate index.
PathExistsRetry(p) ==
  LET c == calls[p] IN
  /\ c.pc = "pathExists"
  /\ RetryNextNum(PathExists(files, c.fullPath), c.overwrite)
  /\ calls' = [calls EXCEPT ![p] =
       Invoke([c EXCEPT !.lastOp = [op |-> "pathExists", file |-> c.fullPath,
                                    ok |-> TRUE],
                        !.foundNums = @ \cup {c.num}],
              c.withoutExt, NextNum(c.num), maxSafeBytes)]
  /\ UNCHANGED <<maxSafeBytes, files, env, job, ncalls, nerrors, returned>>

\* fs.ts:78-84: otherwise the call goes on to create the file.
PathExistsCreate(p) ==
  LET c == calls[p] IN
  /\ c.pc = "pathExists"
  /\ ~RetryNextNum(PathExists(files, c.fullPath), c.overwrite)
  /\ calls' = [calls EXCEPT ![p] =
       [c EXCEPT !.pc = "outputFile",
                 !.lastOp = [op |-> "pathExists", file |-> c.fullPath,
                             ok |-> TRUE],
                 !.clearNums = IF PathExists(files, c.fullPath)
                               THEN @ ELSE @ \cup {c.num}]]
  /\ UNCHANGED <<maxSafeBytes, files, env, job, ncalls, nerrors, returned>>

\* fs.ts:84: the file the call asks the filesystem to create.
CreatedFile(c) == c.fullPath

\* Mutant of ReturnedPath: the path as requested, before any truncation.
ReturnedPathAsRequested(c) == FullPath(c.requested, c.suffix)

\* fs.ts:85: the path the call returns once the file is created.
ReturnedPath(c) == c.fullPath

\* fs.ts:84-85: the file is created and its path returned.
OutputFileOk(p) ==
  LET c == calls[p] IN
  /\ c.pc = "outputFile"
  /\ ~NameTooLong(env, CreatedFile(c))
  /\ files' = OutputFile(files, CreatedFile(c))
  /\ calls' = [calls EXCEPT ![p] =
       [c EXCEPT !.pc = "resolved", !.result = ReturnedPath(c),
                 !.lastOp = [op |-> "outputFile", file |-> CreatedFile(c),
                             ok |-> TRUE]]]
  /\ returned' = returned \cup
       {[requested |-> c.requested, extension |-> c.extension,
         overwrite |-> c.overwrite,
         maxSafePrefixBytes |-> c.maxSafePrefixBytes,
         result |-> ReturnedPath(c)]}
  /\ UNCHANGED <<maxSafeBytes, env, job, ncalls, nerrors>>

\* Mutant of FailedOutputFile: the failed attempt leaves an empty file behind.
FailedOutputFileLeavesFile(fileMap, file) == OutputFile(fileMap, file)

\* fs.ts:84-86: outputFileAsync rejected: no file was written, and the catch
\* block removes or writes none.
FailedOutputFile(fileMap, file) == fileMap

\* The error codes a create attempt fails with.
ErrorCodes == {"ENAMETOOLONG", "EACCES"}

\* The filesystem fails call p's create attempt with `code`: ENAMETOOLONG for
\* a name or path over its limits, any other code at any time.
CreateFails(p, code) ==
  /\ calls[p].pc = "outputFile"
  /\ code = "ENAMETOOLONG" => NameTooLong(env, CreatedFile(calls[p]))
  /\ code # "ENAMETOOLONG" => nerrors < MaxOtherErrors
  /\ nerrors' = IF code = "ENAMETOOLONG" THEN nerrors ELSE nerrors + 1

\* fs.ts:86-91: a recoverable failure: shrink the budget, retry the same index.
OutputFileRetry(p, code) ==
  LET c == calls[p] IN
  /\ CreateFails(p, code)
  /\ Recoverable(code, c.maxSafePrefixBytes)
  /\ maxSafeBytes' = Decremented(maxSafeBytes)
  /\ calls' = [calls EXCEPT ![p] =
       Invoke([c EXCEPT !.lastOp = [op |-> "outputFile",
                                    file |-> CreatedFile(c), ok |-> FALSE],
                        !.tooLong = @ + 1],
              c.withoutExt, c.num, maxSafeBytes')]
  /\ files' = FailedOutputFile(files, CreatedFile(c))
  /\ UNCHANGED <<env, job, ncalls, returned>>

\* fs.ts:86-93: any other failure is thrown to the caller.
OutputFileThrow(p, code) ==
  LET c == calls[p] IN
  /\ CreateFails(p, code)
  /\ ~Recoverable(code, c.maxSafePrefixBytes)
  /\ calls' = [calls EXCEPT ![p] =
       [c EXCEPT !.pc = "failed", !.error = code,
                 !.lastOp = [op |-> "outputFile", file |-> CreatedFile(c),
                             ok |-> FALSE]]]
  /\ files' = FailedOutputFile(files, CreatedFile(c))
  /\ UNCHANGED <<maxSafeBytes, env, job, ncalls, returned>>

Next ==
  \E p \in Callers :
    \/ \E w \in Environment[env].requests, o \in BOOLEAN :
         Sequential(p) /\ Start(p, w, Png, o)
    \/ PathExistsRetry(p)
    \/ PathExistsCreate(p)
    \/ OutputFileOk(p)
    \/ \E code \in ErrorCodes : OutputFileRetry(p, code)
    \/ \E code \in ErrorCodes : OutputFileThrow(p, code)

Spec == Init /\ [][Next]_vars

\* getPath is async and nothing in fs.ts serialises its callers: a caller may
\* begin a call while another one waits for the filesystem, and the calls
\* then interleave at their await points.  Each caller makes one call.
ConcInit == Init /\ env = "shortPaths"

ConcNext ==
  \E p \in Callers :
    \/ \E w \in Environment[env].requests, o \in BOOLEAN :
         calls[p].pc = "idle" /\ Start(p, w, Png, o)
    \/ PathExistsRetry(p)
    \/ PathExistsCreate(p)
    \/ OutputFileOk(p)
    \/ \E code \in ErrorCodes : OutputFileRetry(p, code)
    \/ \E code \in ErrorCodes : OutputFileThrow(p, code)

ConcSpec == ConcInit /\ [][ConcNext]_vars

\* ------------------------------------------------------------------------
\* getPath: from the data of a screenshot to the path without extension
\* ------------------------------------------------------------------------

\* fs.ts:9
RUNNABLE_SEPARATOR == <<" ", "-", "-", " ">>

\* fs.ts:10: pathSeparatorRe matches a backward and a forward slash.
IsPathSeparator(ch) == ch \in {"\\", "/"}

RECURSIVE Split(_)
\* s.split(pathSeparatorRe): the parts of s between the separators, empty
\* parts included.
Split(s) ==
  LET seps == {i \in DOMAIN s : IsPathSeparator(s[i])}
  IN  IF seps = {} THEN <<s>>
      ELSE LET i == CHOOSE k \in seps : \A j \in seps : k <= j
           IN  <<SubSeq(s, 1, i - 1)>> \o Split(SubSeq(s, i + 1, Len(s)))

\* The values a title can be: a string, null, undefined, a number.
String(chars) == [type |-> "string", chars |-> chars, number |-> 0]

Null == [type |-> "null", chars |-> <<>>, number |-> 0]

Undefined == [type |-> "undefined", chars |-> <<>>, number |-> 0]

Number(n) == [type |-> "number", chars |-> <<>>, number |-> n]

\* _.toString(value): '' for null and undefined, the digits of a number.
LodashToString(value) ==
  CASE value.type = "string" -> value
    [] value.type = "number" -> String(NumberToString(value.number))
    [] OTHER -> String(<<>>)

\* sanitize-filename: the characters it removes (illegalRe, and controlRe with
\* U+0001 and U+0085 standing for the control characters).
IllegalChars == {"/", "?", "<", ">", "\\", ":", "*", "|", "\""}

ControlChars == {"U+0001", "U+0085"}

\* sanitize-filename, windowsReservedRe: names Windows reserves.
WindowsReserved ==
  { <<"c", "o", "n">>, <<"p", "r", "n">>, <<"a", "u", "x">>,
    <<"n", "u", "l">> }

RECURSIVE StripTrailing(_)
\* sanitize-filename, windowsTrailingRe: dots and spaces at the end go.
StripTrailing(s) ==
  IF s # <<>> /\ s[Len(s)] \in {".", " "}
  THEN StripTrailing(SubSeq(s, 1, Len(s) - 1))
  ELSE s

RECURSIVE TruncateUtf8(_, _)
\* truncate-utf8-bytes: the longest prefix of whole characters within n bytes.
TruncateUtf8(s, n) ==
  IF ByteLength(s) <= n THEN s ELSE TruncateUtf8(SubSeq(s, 1, Len(s) - 1), n)

\* sanitize(input): throws for anything but a string; removes the illegal and
\* the control characters; empties a name made of dots only and a reserved
\* name; strips trailing dots and spaces; keeps at most 255 bytes.
Sanitize(input) ==
  IF input.type # "string"
  THEN [threw |-> TRUE, chars |-> <<>>]
  ELSE LET removed == IllegalChars \cup ControlChars
           a == SelectSeq(input.chars, LAMBDA ch : ch \notin removed)
           b == IF a # <<>> /\ \A i \in DOMAIN a : a[i] = "." THEN <<>> ELSE a
           c == IF b \in WindowsReserved THEN <<>> ELSE b
       IN  [threw |-> FALSE, chars |-> TruncateUtf8(StripTrailing(c), 255)]

\* Mutant of SanitizeToString: the title is not converted first.
SanitizeToStringUnconverted(title) == Sanitize(title)

\* fs.ts:98-102
SanitizeToString(title) == Sanitize(LodashToString(title))

RECURSIVE Join(_, _)
\* parts.join(separator)
Join(parts, separator) ==
  IF parts = <<>> THEN <<>>
  ELSE IF Len(parts) = 1 THEN parts[1]
  ELSE parts[1] \o separator \o Join(Tail(parts), separator)

\* fs.ts:106-107: the parts of specName, as they are.
SpecNames(data) == Split(data.specName)

\* fs.ts:109-118: the parts of the name, each sanitized, or else the one name
\* made of the sanitized titles (no titles when data.titles is undefined).
Names(data) ==
  IF data.name # <<>>
  THEN LET parts == Split(data.name)
           sanitized == [i \in DOMAIN parts |->
                           SanitizeToString(String(parts[i]))]
       IN  [threw |-> \E i \in DOMAIN parts : sanitized[i].threw,
            names |-> [i \in DOMAIN parts |-> sanitized[i].chars]]
  ELSE LET titles == IF data.hasTitles THEN data.titles ELSE <<>>
           sanitized == [i \in DOMAIN titles |-> SanitizeToString(titles[i])]
       IN  [threw |-> \E i \in DOMAIN titles : sanitized[i].threw,
            names |-> << Join([i \in DOMAIN titles |-> sanitized[i].chars],
                              RUNNABLE_SEPARATOR) >>]

\* fs.ts:123-125
FailedMarker(data) ==
  IF data.testFailure
  THEN <<" ", "(", "f", "a", "i", "l", "e", "d", ")">>
  ELSE <<>>

\* fs.ts:127-129: testAttemptIndex is <<>> when undefined, <<i>> otherwise.
AttemptMarker(data) ==
  IF data.testAttemptIndex # <<>> /\ data.testAttemptIndex[1] > 0
  THEN <<" ", "(", "a", "t", "t", "e", "m", "p", "t", " ">>
         \o NumberToString(data.testAttemptIndex[1] + 1) \o <<")">>
  ELSE <<>>

\* Mutant of Marked: the attempt marker comes first.
MarkedAttemptFirst(name, data) ==
  name \o AttemptMarker(data) \o FailedMarker(data)

\* fs.ts:122-129: the markers the last name gets.
Marked(name, data) == name \o FailedMarker(data) \o AttemptMarker(data)

\* fs.ts:120-129: only names[index] is written.
WithMarkers(names, data) ==
  [names EXCEPT ![Len(names)] = Marked(@, data)]

RECURSIVE Normalize(_, _)
\* path.normalize, segment by segment: empty and "." segments go, ".." takes
\* the segment before it (none at the root).
Normalize(done, rest) ==
  IF rest = <<>> THEN done
  ELSE LET seg == Head(rest)
           next == CASE seg = <<>> \/ seg = <<".">> -> done
                     [] seg = <<".", ".">> ->
                          IF done = <<>> THEN done
                          ELSE SubSeq(done, 1, Len(done) - 1)
                     [] OTHER -> Append(done, seg)
       IN  Normalize(next, Tail(rest))

\* path.join(...segments) of an absolute path
PathJoinAll(segments) == Normalize(<<>>, segments)

\* The screenshotsFolder of the project.
ScreenshotsFolder == << <<"r">>, <<"s">> >>

\* fs.ts:104-131
GetPath(data, screenshotsFolder) ==
  LET built == Names(data)
      names == WithMarkers(built.names, data)
  IN  [threw |-> built.threw,
       specNames |-> SpecNames(data),
       unmarked |-> built.names,
       names |-> names,
       withoutExt |->
         PathJoinAll(screenshotsFolder \o SpecNames(data) \o names)]

\* The screenshots getPath is asked to name.
SpecNameInputs ==
  { <<>>, <<"x">>, <<"d", "/", "x">>, <<"d", "\\", "x">>,
    <<".", ".", "/", "x">>, <<"a", ":", "b", "/", "x">> }

NameInputs ==
  { <<>>, <<"n">>, <<"m", "/", "n">>, <<"m", "\\", "n">>,
    <<".", ".", "/", "n">>, <<"n", "/">>, <<"a", "*">> }

TitleInputs ==
  { <<>>, <<String(<<"t">>)>>, <<String(<<"s">>), String(<<"t">>)>>,
    <<Null, String(<<"t">>)>>, <<Undefined>>, <<Number(7)>>,
    <<String(<<".", ".">>)>>, <<String(<<"a", "/", "b">>)>>,
    <<String(<<>>)>> }

DataInputs ==
  { d \in [specName : SpecNameInputs, name : NameInputs,
           hasTitles : BOOLEAN, titles : TitleInputs,
           testFailure : BOOLEAN,
           testAttemptIndex : {<<>>} \cup {<<i>> : i \in 0..MaxAttemptIndex}] :
      ~d.hasTitles => d.titles = <<>> }

\* A process that is asked to name one screenshot.
NameInit ==
  /\ \E d \in DataInputs : job = [pc |-> "asked", data |-> d]
  /\ env = "default"
  /\ maxSafeBytes = Environment[env].budget
  /\ files = <<>>
  /\ calls = [p \in Callers |-> IdleCall]
  /\ ncalls = 0
  /\ nerrors = 0
  /\ returned = {}

\* fs.ts:104-131: getPath builds the path it hands to ensureSafePath.
BuildPath ==
  /\ job.pc = "asked"
  /\ job' = [pc |-> "built", data |-> job.data,
             path |-> GetPath(job.data, ScreenshotsFolder)]
  /\ UNCHANGED <<maxSafeBytes, files, env, calls, ncalls, nerrors, returned>>

NameNext == BuildPath

NameSpec == NameInit /\ [][NameNext]_vars

\* ------------------------------------------------------------------------
\* Properties
\* ------------------------------------------------------------------------

Resolved(p) == calls[p].pc = "resolved"

Failed(p) == calls[p].pc = "failed"

\* The canonical name of a request with duplicate index k: the requested
\* basename, " (k)" when k > 0, a dot and the extension.
CanonicalFile(requested, extension, k) ==
  [dir  |-> Dirname(requested),
   name |-> Basename(requested)
            \o (IF k = 0 THEN <<>>
                ELSE <<" ", "(">> \o NumberToString(k) \o <<")">>)
            \o <<".">> \o extension]

\* The basename of the request, with the suffix of index k, fits budget b.
Fits(requested, extension, k, b) ==
  ByteLength(CanonicalFile(requested, extension, k).name) <= b

Min(S) == CHOOSE x \in S : \A y \in S : x <= y

\* The request's canonical name and its variants 1 .. n-1 exist in fileMap,
\* and variant n does not.
PriorArtifacts(fileMap, requested, extension, n) ==
  /\ \A k \in 0..(n - 1) :
       CanonicalFile(requested, extension, k) \in DOMAIN fileMap
  /\ CanonicalFile(requested, extension, n) \notin DOMAIN fileMap

\* C1 (original): with overwrite = false, N prior artifacts and a name that
\* fits, resolve returns the canonical name with suffix " (N)"; in general
\* the returned index is the smallest one whose candidate did not exist when
\* probed.
C1_SmallestClearIndex ==
  \A p \in Callers :
    LET c == calls[p] IN
    (Resolved(p) /\ ~c.overwrite) =>
      /\ \A n \in 1..(MaxPrior + MaxCalls) :
           ( /\ Fits(c.requested, c.extension, n, maxSafeBytes)
             /\ PriorArtifacts(c.startFiles, c.requested, c.extension, n) )
           => c.result = CanonicalFile(c.requested, c.extension, n)
      /\ c.num = Min(c.clearNums)

\* C1 (amended): with overwrite = false, N prior artifacts and a name that
\* fits, resolve returns the canonical name with suffix " (N)"; in general
\* the candidate of the returned index did not exist when probed and every
\* smaller index had a candidate that existed when probed; the returned index
\* is the smallest with an absent candidate when the call met no
\* ENAMETOOLONG.
C1_DuplicateIndex ==
  \A p \in Callers :
    LET c == calls[p] IN
    (Resolved(p) /\ ~c.overwrite) =>
      /\ \A n \in 1..(MaxPrior + MaxCalls) :
           ( /\ Fits(c.requested, c.extension, n, maxSafeBytes)
             /\ PriorArtifacts(c.startFiles, c.requested, c.extension, n) )
           => c.result = CanonicalFile(c.requested, c.extension, n)
      /\ c.num \in c.clearNums
      /\ \A k \in 0..(c.num - 1) : k \in c.foundNums
      /\ c.tooLong = 0 => c.num = Min(c.clearNums)

\* C1 witness: two prior artifacts, and the call returned the " (2)" name.
C1_Witness ==
  \E p \in Callers :
    LET c == calls[p] IN
    /\ Resolved(p) /\ ~c.overwrite
    /\ PriorArtifacts(c.startFiles, c.requested, c.extension, 2)
    /\ Fits(c.requested, c.extension, 2, maxSafeBytes)
    /\ c.result = CanonicalFile(c.requested, c.extension, 2)
    /\ c.num = 2

\* C2: in a sequence of sequential calls, a call with overwrite = false
\* leaves every file that existed when it began as it was, returns a path
\* that did not exist when it began, and returns a path no earlier call
\* returned.
C2_NoCollision ==
  \A p \in Callers :
    LET c == calls[p] IN
    (c.pc # "idle" /\ ~c.overwrite) =>
      /\ \A f \in DOMAIN c.startFiles :
           f \in DOMAIN files /\ files[f] = c.startFiles[f]
      /\ Resolved(p) =>
           /\ c.result \notin DOMAIN c.startFiles
           /\ c.result \notin c.startReturned

\* C2 witness: a call with overwrite = false resolved past an artifact of an
\* earlier run and a path returned by an earlier call.
C2_Witness ==
  \E p \in Callers :
    LET c == calls[p] IN
    /\ Resolved(p) /\ ~c.overwrite
    /\ c.num >= 2
    /\ \E f \in DOMAIN c.startFiles : c.startFiles[f] = "artifact"
    /\ \E f \in c.startReturned : f.dir = c.result.dir
    /\ files[c.result] = "empty"

\* C3 (original): with overwrite = true, calls with identical input always
\* return the same path, the duplicate marker is never part of it, and the
\* existence check never causes a retry with num + 1.
C3_OverwriteSamePath ==
  /\ \A r1, r2 \in returned :
       ( /\ r1.overwrite /\ r2.overwrite
         /\ r1.requested = r2.requested /\ r1.extension = r2.extension )
       => r1.result = r2.result
  /\ \A p \in Callers :
       LET c == calls[p] IN
       (c.pc # "idle" /\ c.overwrite) =>
         /\ c.num = 0 /\ c.foundNums = {}
         /\ c.fullPath = FullPath(c.withoutExt, <<".">> \o c.extension)

\* C3 (amended): with overwrite = true, every call returns the requested
\* basename, truncated to the prefix budget in force at its last probe,
\* followed by "." and the extension; the duplicate marker is never part of
\* it and the existence check never causes a retry with num + 1; calls with
\* identical input return the same path when they end under the same budget.
C3_OverwriteUnsuffixed ==
  /\ \A r1, r2 \in returned :
       ( /\ r1.overwrite /\ r2.overwrite
         /\ r1.requested = r2.requested /\ r1.extension = r2.extension
         /\ r1.maxSafePrefixBytes = r2.maxSafePrefixBytes )
       => r1.result = r2.result
  /\ \A p \in Callers :
       LET c == calls[p] IN
       (c.pc # "idle" /\ c.overwrite) =>
         /\ c.num = 0 /\ c.foundNums = {}
         /\ c.fullPath = FullPath(c.withoutExt, <<".">> \o c.extension)
         /\ Resolved(p) =>
              c.result =
                FullPath(TruncateWithoutExt(c.requested, c.maxSafePrefixBytes),
                         <<".">> \o c.extension)

\* C3 witness: a call with overwrite = true returned a path that existed when
\* it began and that an earlier call had returned.
C3_Witness ==
  \E p \in Callers :
    LET c == calls[p] IN
    /\ Resolved(p) /\ c.overwrite
    /\ c.result \in DOMAIN c.startFiles
    /\ c.result \in c.startReturned

\* C4: when a call has returned a path, its last filesystem operation was a
\* successful create of exactly that path, which exists and is empty.
C4_ReturnedIsCreated ==
  \A p \in Callers :
    LET c == calls[p] IN
    Resolved(p) =>
      /\ c.lastOp = [op |-> "outputFile", file |-> c.result, ok |-> TRUE]
      /\ c.result \in DOMAIN files
      /\ files[c.result] = "empty"

\* C4 witness: a call returned a truncated name over a file that held an
\* artifact.
C4_Witness ==
  \E p \in Callers :
    LET c == calls[p] IN
    /\ Resolved(p)
    /\ c.withoutExt # c.requested
    /\ c.result \in DOMAIN c.startFiles
    /\ c.startFiles[c.result] = "artifact"

\* C5 (as claimed): the basename of every returned path has at most
\* maxSafeBytes bytes.
C5_BasenameWithinBudget ==
  \A p \in Callers :
    Resolved(p) => ByteLength(calls[p].result.name) <= maxSafeBytes

\* Call p's create attempt fails with ENAMETOOLONG in this step.
TooLongFailure(p) ==
  CreateFails(p, "ENAMETOOLONG") /\ calls'[p] # calls[p]

\* Call p's create attempt fails with another error in this step.
OtherFailure(p) ==
  calls[p].pc = "outputFile" /\ nerrors' = nerrors + 1 /\ calls'[p] # calls[p]

\* Caller p begins a call in this step.
Begins(p) == ~Active(p) /\ calls'[p].pc = "pathExists"

\* C6: no step raises maxSafeBytes; it changes only when a create attempt
\* fails with ENAMETOOLONG; a call that begins computes its first candidate
\* from the budget as it then is.
C6_BudgetNonIncreasing ==
  [][ /\ maxSafeBytes' <= maxSafeBytes
      /\ maxSafeBytes' # maxSafeBytes => \E p \in Callers : TooLongFailure(p)
      /\ \A p \in Callers :
           Begins(p) =>
             /\ calls'[p].startBudget = maxSafeBytes
             /\ calls'[p].fullPath =
                  EnsureSafePath(calls'[p].requested, calls'[p].extension,
                                 calls'[p].overwrite, 0, maxSafeBytes).fullPath
             /\ maxSafeBytes <= Environment[env].budget ]_vars

\* C6 witness: a call began under a budget an earlier call had reduced, with
\* a first candidate cut to the reduced budget.
C6_Witness ==
  \E p \in Callers :
    LET c == calls[p] IN
    /\ c.pc = "pathExists" /\ c.num = 0 /\ c.tooLong = 0
    /\ c.startBudget < Environment[env].budget
    /\ c.withoutExt # c.requested
    /\ c.maxSafePrefixBytes = c.startBudget - StringLength(c.suffix)

\* C7 (as claimed): the prefix budget of every invocation is at least
\* MIN_PREFIX_BYTES.
C7_PrefixAtLeastFloor ==
  \A p \in Callers :
    calls[p].pc # "idle" => calls[p].maxSafePrefixBytes >= MIN_PREFIX_BYTES

\* C8 (as claimed): a create attempt that fails with ENAMETOOLONG while the
\* prefix budget is at or below MIN_PREFIX_BYTES ends the call in Failed with
\* that error, the budget untouched.
C8_AtFloorIsFatal ==
  [][ \A p \in Callers :
        (TooLongFailure(p) /\ calls[p].maxSafePrefixBytes <= MIN_PREFIX_BYTES)
        => /\ calls'[p].pc = "failed"
           /\ calls'[p].error = "ENAMETOOLONG"
           /\ maxSafeBytes' = maxSafeBytes ]_vars

\* C9: a create attempt that fails with ENAMETOOLONG while the prefix budget
\* is above the floor takes exactly 1 off maxSafeBytes and probes again with
\* the same duplicate index; the index advances only when the candidate
\* exists and overwrite is off; the budget changes only on ENAMETOOLONG.
C9_LengthRetryKeepsIndex ==
  [][ \A p \in Callers :
        /\ (TooLongFailure(p) /\ calls[p].maxSafePrefixBytes > MIN_PREFIX_BYTES)
           => /\ maxSafeBytes' = maxSafeBytes - 1
              /\ calls'[p].pc = "pathExists"
              /\ calls'[p].num = calls[p].num
              /\ calls'[p].maxSafePrefixBytes =
                   maxSafeBytes' - StringLength(calls[p].suffix)
        /\ (Active(p) /\ calls'[p].num # calls[p].num)
           => /\ calls[p].pc = "pathExists"
              /\ PathExists(files, calls[p].fullPath)
              /\ ~calls[p].overwrite
              /\ calls'[p].num = calls[p].num + 1
              /\ maxSafeBytes' = maxSafeBytes
        /\ maxSafeBytes' # maxSafeBytes =>
             \E q \in Callers : TooLongFailure(q) ]_vars

\* C9 witness: started at 254, one ENAMETOOLONG, budget 253, and the retry
\* with the same index succeeded.
C9_Witness ==
  \E p \in Callers :
    LET c == calls[p] IN
    /\ Resolved(p)
    /\ c.startBudget = DefaultMaxSafeBytes
    /\ c.tooLong = 1
    /\ maxSafeBytes = DefaultMaxSafeBytes - 1
    /\ c.num = 0

\* C10: a create attempt that fails with an error other than ENAMETOOLONG
\* ends the call in Failed with that error at once: no retry, the budget and
\* the duplicate index as they were.
C10_OtherErrorPropagates ==
  [][ \A p \in Callers :
        OtherFailure(p)
        => /\ calls'[p].pc = "failed"
           /\ calls'[p].error = "EACCES"
           /\ maxSafeBytes' = maxSafeBytes
           /\ calls'[p].num = calls[p].num
           /\ calls'[p].fullPath = calls[p].fullPath
           /\ files' = files ]_vars

\* C10 witness: a call failed with EACCES where a length failure would have
\* been retried, after it had advanced its index.
C10_Witness ==
  \E p \in Callers :
    LET c == calls[p] IN
    /\ Failed(p) /\ c.error = "EACCES"
    /\ c.maxSafePrefixBytes >= MIN_PREFIX_BYTES
    /\ c.num = 1
    /\ maxSafeBytes = c.startBudget

\* C11: while a call runs, and when it has ended in Failed, the files and
\* their contents are those of the moment the call began: no failed create
\* attempt and no retry of the call leaves a file.
C11_FailedLeavesFiles ==
  \A p \in Callers :
    (Active(p) \/ Failed(p)) => files = calls[p].startFiles

\* C11 witness: a call failed after it had recovered from ENAMETOOLONG
\* failures, artifacts of an earlier run being present.
C11_Witness ==
  \E p \in Callers :
    /\ Failed(p)
    /\ calls[p].tooLong >= 1
    /\ DOMAIN calls[p].startFiles # {}
    /\ \A f \in DOMAIN files : files[f] = "artifact"

\* C12: when the requested basename has more bytes than maxSafePrefixBytes,
\* the basename of the resolved path has exactly maxSafePrefixBytes plus the
\* length of the suffix bytes.
C12_TruncatedLengthExact ==
  \A p \in Callers :
    LET c == calls[p] IN
    (Resolved(p) /\ ByteLength(Basename(c.requested)) > c.maxSafePrefixBytes)
    => ByteLength(c.result.name) = c.maxSafePrefixBytes + ByteLength(c.suffix)

\* A segment that is a parent-directory reference or holds a character
\* sanitize removes.
UnsafeSegment(seg) ==
  \/ seg = <<".", ".">>
  \/ \E i \in DOMAIN seg : seg[i] \in IllegalChars \cup ControlChars

\* Path p lies under the directory root.
Under(root, p) == Len(p) >= Len(root) /\ SubSeq(p, 1, Len(root)) = root

\* The path ensureSafePath makes of the built path, when nothing is in its way.
ResolvedPath ==
  EnsureSafePath(job.path.withoutExt, Png, FALSE, 0, maxSafeBytes).fullPath

\* C13 (as claimed): the directory of the resolved path is the screenshots
\* folder, the sanitized parts of specName and all names but the last; no
\* directory segment is ".." or holds an unsafe character; the resolved path
\* is under the screenshots folder.
C13_DirSegmentsSanitized ==
  job.pc = "built" =>
    LET specNames == job.path.specNames
        sanitized == [i \in DOMAIN specNames |->
                        Sanitize(String(specNames[i])).chars]
        dir == ResolvedPath.dir
    IN  /\ dir = Dirname(PathJoinAll(ScreenshotsFolder \o sanitized
                                       \o job.path.names))
        /\ \A i \in DOMAIN dir : ~UnsafeSegment(dir[i])
        /\ Under(ScreenshotsFolder, dir)

\* C14: the last name gets " (failed)" exactly when testFailure is true,
\* then " (attempt N)", N = testAttemptIndex + 1, exactly when
\* testAttemptIndex is above 0; with both it ends in " (failed) (attempt N)";
\* an index of 0 or none adds no attempt marker; the other names are not
\* touched.
C14_MarkersInOrder ==
  job.pc = "built" =>
    LET d == job.data
        before == job.path.unmarked
        after == job.path.names
        last == Len(after)
        failed == IF d.testFailure
                  THEN <<" ", "(", "f", "a", "i", "l", "e", "d", ")">>
                  ELSE <<>>
        attempt == IF d.testAttemptIndex \in {<<>>, <<0>>}
                   THEN <<>>
                   ELSE <<" ", "(", "a", "t", "t", "e", "m", "p", "t", " ">>
                          \o NumberToString(d.testAttemptIndex[1] + 1)
                          \o <<")">>
    IN  /\ Len(after) = Len(before)
        /\ \A i \in 1..(last - 1) : after[i] = before[i]
        /\ after[last] = (before[last] \o failed) \o attempt

\* C14 witness: a failed second attempt named "m/n": the last name is
\* "n (failed) (attempt 2)", the first still "m".
C14_Witness ==
  /\ job.pc = "built"
  /\ job.data.name = <<"m", "/", "n">>
  /\ job.data.testFailure /\ job.data.testAttemptIndex = <<1>>
  /\ job.path.names =
       << <<"m">>,
          <<"n", " ", "(", "f", "a", "i", "l", "e", "d", ")", " ", "(", "a",
            "t", "t", "e", "m", "p", "t", " ", "2", ")">> >>

\* The path levels the names add below the parts of specName.
NameLevels ==
  Len(job.path.withoutExt)
    - Len(PathJoinAll(ScreenshotsFolder \o job.path.specNames))

\* C15 (as claimed): a name is split on both slashes, each part sanitized;
\* otherwise the sanitized titles joined by " -- " are one name, which adds
\* exactly one path level whatever the titles, and getPath does not throw.
C15_TitlesOneLevel ==
  job.pc = "built" =>
    /\ ~job.path.threw
    /\ job.data.name # <<>> =>
         job.path.unmarked =
           [i \in DOMAIN Split(job.data.name) |->
              Sanitize(String(Split(job.data.name)[i])).chars]
    /\ job.data.name = <<>> =>
         /\ Len(job.path.names) = 1
         /\ NameLevels = 1

\* C15 (amended): as claimed, but the one name of the titles adds a path
\* level only when it is not empty: with no titles, or titles that sanitize
\* to nothing, and no marker, path.join drops it and the path ends with the
\* last part of specName.
C15_TitlesOneName ==
  job.pc = "built" =>
    LET d == job.data
        titles == IF d.hasTitles THEN d.titles ELSE <<>>
    IN  /\ ~job.path.threw
        /\ d.name # <<>> =>
             job.path.unmarked =
               [i \in DOMAIN Split(d.name) |->
                  Sanitize(String(Split(d.name)[i])).chars]
        /\ d.name = <<>> =>
             /\ Len(job.path.names) = 1
             /\ job.path.unmarked[1] =
                  Join([i \in DOMAIN titles |->
                          Sanitize(LodashToString(titles[i])).chars],
                       <<" ", "-", "-", " ">>)
             /\ NameLevels = IF job.path.names[1] = <<>> THEN 0 ELSE 1

\* C15 witness: no name and no titles, no marker: the one name is empty and
\* the path ends with the part of specName.
C15_Witness ==
  /\ job.pc = "built"
  /\ job.data.name = <<>> /\ ~job.data.hasTitles
  /\ job.data.specName = <<"d", "/", "x">>
  /\ job.path.names = << <<>> >>
  /\ job.path.withoutExt = ScreenshotsFolder \o << <<"d">>, <<"x">> >>

\* What call c can still do under budget `budget`: twice the length retries
\* the floor leaves to a suffix without duplicate marker plus the files it
\* has not yet found in its way, plus one while its existence check is
\* pending.
Variant(c, budget) ==
  LET left == budget - StringLength(Suffix(0, c.overwrite, c.extension))
                - (MIN_PREFIX_BYTES - 1)
      lengthRetries == IF left > 0 THEN left ELSE 0
      dedupRetries == Cardinality(DOMAIN c.startFiles)
                        - Cardinality(c.foundNums)
  IN  2 * (lengthRetries + dedupRetries)
        + (IF c.pc = "pathExists" THEN 1 ELSE 0)

\* C16: every call ends in Resolved or Failed after finitely many probes:
\* each step that leaves the call running lowers Variant, a natural number.
\* The duplicate indexes a call found taken are at most as many as the files
\* that existed when it began; when a call retries after ENAMETOOLONG, the
\* length failures it has then recovered from are at most the budget at its
\* start, less the length of the suffix of the probe that failed, less the
\* floor, plus one.
C16_Terminates ==
  /\ [][ \A p \in Callers :
           (Active(p) /\ calls'[p].pc \in {"pathExists", "outputFile"}
              /\ calls'[p] # calls[p])
           => /\ Variant(calls'[p], maxSafeBytes') >= 0
              /\ Variant(calls'[p], maxSafeBytes')
                   < Variant(calls[p], maxSafeBytes) ]_vars
  /\ [][ \A p \in Callers :
           (TooLongFailure(p) /\ calls'[p].pc = "pathExists")
           => calls'[p].tooLong <=
                calls[p].startBudget - StringLength(calls[p].suffix)
                  - MIN_PREFIX_BYTES + 1 ]_vars
  /\ [](\A p \in Callers :
          Cardinality(calls[p].foundNums)
            <= Cardinality(DOMAIN calls[p].startFiles))

\* C16 witness: every create attempt of a call was answered ENAMETOOLONG; the
\* call used up its length retries and ended in Failed.
C16_Witness ==
  \E p \in Callers :
    LET c == calls[p] IN
    /\ Failed(p) /\ c.error = "ENAMETOOLONG"
    /\ c.clearNums = {0} /\ c.foundNums = {}
    /\ c.tooLong > 0
    /\ c.tooLong =
         c.startBudget - StringLength(c.suffix) - MIN_PREFIX_BYTES + 1

\* C17: a retry of a call, after an existing file or after ENAMETOOLONG,
\* checks a path the call has not checked before; the retry after
\* ENAMETOOLONG checks a path at least one byte shorter than the one that
\* failed.
C17_NoPathProbedTwice ==
  [][ \A p \in Callers :
        (Active(p) /\ calls'[p].pc = "pathExists" /\ calls'[p] # calls[p])
        => /\ calls'[p].fullPath \notin calls[p].probed
           /\ TooLongFailure(p)
              => PathBytes(calls'[p].fullPath)
                   <= PathBytes(calls[p].fullPath) - 1 ]_vars

\* C19: calls made one after the other, from a budget of at least 64 and with
\* suffixes of at least one character, keep maxSafeBytes at 64 or more: the
\* budget is lowered only by a call for which maxSafeBytes less the length of
\* its suffix is at least 64, so that afterwards maxSafeBytes is at least 63
\* plus the length of that suffix.
C19_BudgetAtLeastFloor ==
  /\ [](maxSafeBytes >= MIN_PREFIX_BYTES)
  /\ [][ maxSafeBytes' # maxSafeBytes =>
           \E p \in Callers :
             /\ TooLongFailure(p)
             /\ StringLength(calls[p].suffix) >= 1
             /\ maxSafeBytes - StringLength(calls[p].suffix)
                  >= MIN_PREFIX_BYTES
             /\ maxSafeBytes'
                  >= MIN_PREFIX_BYTES - 1 + StringLength(calls[p].suffix) ]_vars

\* C19 witness: length failures have brought the budget down to 63 plus the
\* length of the suffix, where the next one was fatal.
C19_Witness ==
  \E p \in Callers :
    LET c == calls[p] IN
    /\ Failed(p) /\ c.error = "ENAMETOOLONG"
    /\ c.startBudget >= MIN_PREFIX_BYTES
    /\ maxSafeBytes < c.startBudget
    /\ maxSafeBytes = MIN_PREFIX_BYTES - 1 + StringLength(c.suffix)

\* C18 (as claimed): two calls with overwrite off for the same path, run
\* interleaved, return different paths, and neither creates a file at a path
\* the other has created.
C18_InterleavedDistinct ==
  /\ [](\A p, q \in Callers :
          (/\ p # q
           /\ Resolved(p) /\ Resolved(q)
           /\ ~calls[p].overwrite /\ ~calls[q].overwrite
           /\ calls[p].requested = calls[q].requested)
          => calls[p].result # calls[q].result)
  /\ [][ \A p, q \in Callers :
           (/\ p # q
            /\ calls[p].pc = "outputFile" /\ Resolved(p)'
            /\ ~calls[p].overwrite /\ ~calls[q].overwrite
            /\ calls[p].requested = calls[q].requested
            /\ Resolved(q))
           => CreatedFile(calls[p]) # calls[q].result ]_vars

\* C20 (as claimed): with calls interleaved, every decrement of maxSafeBytes
\* is made by a call for which maxSafeBytes, as it is at that moment, less the
\* length of its suffix is at least 64, so that no decrement takes
\* maxSafeBytes below 63 plus the length of that suffix.
C20_DecrementGuardedByCurrentBudget ==
  [][ maxSafeBytes' # maxSafeBytes =>
        \E p \in Callers :
          /\ TooLongFailure(p)
          /\ maxSafeBytes - StringLength(calls[p].suffix) >= MIN_PREFIX_BYTES
          /\ maxSafeBytes'
               >= MIN_PREFIX_BYTES - 1 + StringLength(calls[p].suffix) ]_vars

====
